---------------------------- MODULE Spec2Model ----------------------------
(***************************************************************************)
(* Model of the NIP-05 identifier store: the per-domain registry file      *)
(* (core/nostr.py), the registration ledger on one shared aiosqlite        *)
(* connection (db/connection.py, db/records.py) and the request handlers   *)
(* that drive them (routers/nip05.py, routers/admin_records.py).           *)
(*                                                                         *)
(* Scheduling: one asyncio event loop.  Code between two awaits runs as    *)
(* one step; every awaited ledger statement (execute, commit, rollback)    *)
(* takes effect on the shared connection as a step of its own, so other    *)
(* tasks' statements can fall between two statements of one task.          *)
(*                                                                         *)
(* Spec is the event loop over the request handlers.  SpecFs is the life   *)
(* of the registry files under load_nostr_json, save_nostr_json (step by   *)
(* step, with failures and stops), migrate_to_per_domain and the temp-file *)
(* cleanup at startup.  SpecPay is the event loop over the payment         *)
(* endpoints: create-invoice, check-payment and cancel-registration.       *)
(* SpecAdmin runs the admin record update and delete beside /api/register, *)
(* SpecReset the password reset confirmation, and SpecLive is Spec with    *)
(* weak fairness of every task's steps.                                    *)
(***************************************************************************)
EXTENDS Naturals, FiniteSets, TLC

\* ------------------------------------------------------------------ bounds
\* Number of request tasks; each task serves one request.
NProcs == 2
\* Number of environment faults (failed file or ledger calls) in one run.
MaxFaults == 1

Procs == 1..NProcs

\* ------------------------------------------------------------------ inputs
Usernames == {"alice", "Alice"}
Domains == {"d1", "d2"}
NoHash == "nohash"
NoProc == 0
NoId == 0

\* str.lower() on the usernames of the model.
Lower(u) == IF u = "Alice" THEN "alice" ELSE u

\* The pubkey a request carries: a payment confirmation repeats the pubkey the
\* invoice was created for, every other request brings the caller's own key.
PendingKey == <<"k", 0>>
KeyOf(p, o) == IF o = "check_payment" THEN PendingKey ELSE <<"k", p>>

\* --------------------------------------------------------- registry files
NoNames == [u \in {} |-> PendingKey]
Missing == [kind |-> "missing", names |-> NoNames]
OkFile(names) == [kind |-> "ok", names |-> names]

\* for existing in names.keys(): if existing.lower() == username.lower()
MatchesExact(names, u) == {k \in DOMAIN names : k = u}
Matches(names, u) == {k \in DOMAIN names : Lower(k) = Lower(u)}

\* data["names"][username] = pubkey_hex
PutLower(names, u, k) ==
    [x \in (DOMAIN names) \cup {Lower(u)} |-> IF x = Lower(u) THEN k ELSE names[x]]
Put(names, u, k) == [x \in (DOMAIN names) \cup {u} |-> IF x = u THEN k ELSE names[x]]

\* load_nostr_json: the primary when it parses, the backup when the primary is
\* corrupt and the backup parses, an empty document otherwise.
LoadNames(f, b) ==
    IF f.kind = "ok" THEN f.names
    ELSE IF f.kind = "corrupt" /\ b.kind = "ok" THEN b.names
    ELSE NoNames

\* Outcomes of save_nostr_json: success, or the step that raised.
SaveOutcomes == {"ok", "copy_fail", "write_fail", "move_fail", "chmod_fail"}

\* save_nostr_json + _atomic_write_json on one domain's files.
\*   f, b, t: primary, backup, "an orphan *.tmp.json exists"
SaveFile(f, b, t, names, out) ==
    [file   |-> IF out \in {"ok", "chmod_fail"} THEN OkFile(names) ELSE f,
     bak    |-> IF f.kind # "missing" /\ out # "copy_fail" THEN f ELSE b,
     tmpf   |-> t \/ out = "write_fail",
     raised |-> out # "ok"]

\* ------------------------------------------------- registry files, in detail
\* What a file on disk can hold (field kind of a file record):
\*   "missing"      no such file
\*   "ok"           a JSON object whose "names" is a mapping (field names)
\*   "nonames"      a JSON object without a "names" key, such as {}
\*   "badnames"     a JSON object whose "names" has no length, such as 5 or null
\*   "notobj"       valid JSON that is not an object, such as []
\*   "corrupt"      not valid JSON (truncated or partial content)
\*   "undecodable"  bytes that are not valid UTF-8
\*   "unreadable"   open() fails with an OSError
FileKinds == {"missing", "ok", "nonames", "badnames", "notobj", "corrupt",
              "undecodable", "unreadable"}
Other(kind) == [kind |-> kind, names |-> NoNames]

\* A document in memory: shape "ok" (names is a dict), "nonames" (no "names"
\* key) or "badnames" (names is not a dict).
Doc(shape, names) == [shape |-> shape, names |-> names]
EmptyDoc == Doc("ok", NoNames)
DocOf(f) == Doc(f.kind, f.names)

\* json.dump(data, tmp): the content a document is written as
FileOf(doc) == [kind |-> doc.shape, names |-> doc.names]

\* with open(path) as f: data = json.load(f); len(data.get("names", {}))
\* gives the data or the exception that leaves the with block.
Parse(f) ==
    CASE f.kind = "missing"                -> "FileNotFoundError"
      [] f.kind \in {"ok", "nonames"}      -> "data"
      [] f.kind = "badnames"               -> "TypeError"
      [] f.kind = "notobj"                 -> "AttributeError"
      [] f.kind = "corrupt"                -> "JSONDecodeError"
      [] f.kind = "undecodable"            -> "UnicodeDecodeError"
      [] f.kind = "unreadable"             -> "OSError"

\* The exceptions no except clause of load_nostr_json catches.
Uncaught == {"TypeError", "AttributeError", "UnicodeDecodeError"}

\* load_nostr_json(domain) on primary f and backup b: what it returns, or
\* that it raises.
Returned(doc) == [raised |-> FALSE, doc |-> doc]
Raised == [raised |-> TRUE, doc |-> EmptyDoc]
Load(f, b) ==
    CASE Parse(f) = "data"    -> Returned(DocOf(f))
      [] Parse(f) \in Uncaught -> Raised
      [] Parse(f) = "JSONDecodeError" ->
           IF b.kind = "missing" THEN Returned(EmptyDoc)
           ELSE CASE Parse(b) = "data"     -> Returned(DocOf(b))
                  [] Parse(b) \in Uncaught -> Raised
                  [] OTHER                 -> Returned(EmptyDoc)
      [] OTHER                -> Returned(EmptyDoc)

\* isinstance(data.get("names"), dict)
AnyDoc(doc) == TRUE
ValidDoc(doc) == doc.shape = "ok"

\* ----------------------------------------------------------------- ledger
\* One row of table records.  nip05 is stored lower-cased (nip05.lower()).
Nip(u, d) == <<Lower(u), d>>
Row(id, u, d, h, key, paid, inj, adm) ==
    [id |-> id, nip05 |-> Nip(u, d), hash |-> h, key |-> key,
     paid |-> paid, inj |-> inj, admin |-> adm]

EmptyDb == [rows |-> {}, seq |-> 0]

\* WHERE LOWER(nip05) = ?   with the parameter nip05.lower()
ByNip(db, u, d) == {r \in db.rows : r.nip05 = Nip(u, d)}
ByHash(db, h) == {r \in db.rows : r.hash = h}

\* INSERT INTO records ...; nip05 is UNIQUE, id is AUTOINCREMENT.
InsertOk(db, u, d) == ByNip(db, u, d) = {}
Insert(db, u, d, h, key, paid, inj, adm) ==
    [rows |-> db.rows \cup {Row(db.seq + 1, u, d, h, key, paid, inj, adm)},
     seq  |-> db.seq + 1]

\* UPDATE records SET payment_completed=1, in_nostr_json=1 WHERE payment_hash=?
MarkPaid(db, h) ==
    [db EXCEPT !.rows = {IF r.hash = h THEN [r EXCEPT !.paid = TRUE, !.inj = TRUE] ELSE r
                         : r \in db.rows}]

\* UPDATE records SET in_nostr_json = 1 WHERE LOWER(nip05) = ?
MarkInJson(db, u, d) ==
    [db EXCEPT !.rows = {IF r.nip05 = Nip(u, d) THEN [r EXCEPT !.inj = TRUE] ELSE r
                         : r \in db.rows}]

\* DELETE FROM records WHERE id = ?
DeleteId(db, id) == [db EXCEPT !.rows = {r \in db.rows : r.id # id}]

\* SELECT ... WHERE LOWER(nip05) = ? AND payment_completed = 0
PendingOf(db, u, d) == {r \in ByNip(db, u, d) : ~r.paid}

\* --------------------------------------------------------------- variables
VARIABLES
    file,     \* file[d]: the primary registry file of domain d
    bak,      \* bak[d]: its backup file
    tmpf,     \* tmpf[d]: an orphan *.tmp.json lies in d's directory
    dbw,      \* the shared connection's view of the ledger (with staged changes)
    dbc,      \* the committed ledger
    lock,     \* holder of _nostr_json_lock, or NoProc
    op,       \* op[p]: the request task p serves
    arg,      \* arg[p]: [u, d, h], the request's username, domain, payment hash
              \* (for create-invoice: the hash the provider returned; for a
              \* password reset: the token presented)
    pc,       \* pc[p]: where task p stands
    data,     \* data[p]: the names document p loaded inside the critical section
    rid,      \* rid[p]: the record id p read from the ledger
    cres,     \* cres[p]: outcome of p's coordinator call
    resp,     \* resp[p]: the handler's response
    live,     \* live[p]: the tasks in flight when p's request arrived (history)
    file0,    \* the registry files at start (history)
    faults,   \* number of environment faults so far
    legacy,   \* the legacy consolidated nostr.json
    call,     \* the registry call that is running (load, save, migration)
    ret,      \* how the last registry call ended
    pre,      \* the files of the call's domain when the call began (history)
    token,    \* the password reset token issued to the user: fresh, used, expired
    pwdBy     \* the tasks whose new password was written to the user's row

fsVars == <<file, bak, tmpf>>
dbVars == <<dbw, dbc>>
reqVars == <<op, arg, live>>
\* The password reset tables change only under SpecReset.
authVars == <<token, pwdBy>>
fsxVars == <<legacy, call, ret, pre, authVars>>
vars == <<file, bak, tmpf, dbw, dbc, lock, op, arg, pc, data, rid, cres, resp,
          live, file0, faults, legacy, call, ret, pre, token, pwdBy>>

NoArg == [u |-> "alice", d |-> "d1", h |-> NoHash]

\* No legacy file, no registry call running or finished.
NoLegacy == [kind |-> "missing", names |-> [d \in Domains |-> NoNames]]
NoCall == [fn |-> "none", at |-> "none", d |-> "d1", doc |-> EmptyDoc, tmp |-> "none"]
NoRet == [fn |-> "none", how |-> "none", at |-> "none", doc |-> EmptyDoc,
          left |-> FALSE]
NoPre == [file |-> Missing, bak |-> Missing, tmpf |-> FALSE]

\* The ledger after /api/create-invoice stored a pending record for alice@d1.
PendingDb == Insert(EmptyDb, "alice", "d1", "h1", PendingKey, FALSE, FALSE, FALSE)

Init ==
    /\ file = [d \in Domains |-> Missing]
    /\ bak = [d \in Domains |-> Missing]
    /\ tmpf = [d \in Domains |-> FALSE]
    /\ dbc \in {EmptyDb, PendingDb}
    /\ dbw = dbc
    /\ lock = NoProc
    /\ op = [p \in Procs |-> "none"]
    /\ arg = [p \in Procs |-> NoArg]
    /\ pc = [p \in Procs |-> "idle"]
    /\ data = [p \in Procs |-> NoNames]
    /\ rid = [p \in Procs |-> NoId]
    /\ cres = [p \in Procs |-> "none"]
    /\ resp = [p \in Procs |-> "none"]
    /\ live = [p \in Procs |-> {}]
    /\ file0 = file
    /\ faults = 0
    /\ legacy = NoLegacy
    /\ call = NoCall
    /\ ret = NoRet
    /\ pre = NoPre
    /\ token = "fresh"
    /\ pwdBy = {}

\* _nostr_json_lock is free: "async with" enters without waiting.
NoLock(l) == TRUE
LockFree(l) == l = NoProc

InFlight(p) == pc[p] \notin {"idle", "done"}

Key(p) == KeyOf(p, op[p])

\* A request arrives at task p.
FirstPc(o) ==
    CASE o = "register"      -> "reg_cs"
      [] o = "create_record" -> "adm_ins"
      [] o = "check_payment" -> "cp_lookup"
      [] o = "cancel"        -> "cn_get"
      [] o = "check_avail"   -> "ca_read"
      [] o = "create_invoice" -> "ci_get"
      [] o = "update_record" -> "upd_exec"
      [] o = "delete_record" -> "adl_sel"
      [] o = "reset_confirm" -> "rs_verify"

Ops == {"register", "create_record", "check_payment", "cancel", "check_avail"}

\* The requests of the model.  /api/register is also called for the second
\* domain; the other handlers are exercised on d1, where the pending record is.
ArgDomains(o) == IF o \in {"register", "create_invoice"} THEN Domains ELSE {"d1"}
ArgNames(o) == IF o = "cancel" THEN {"alice"} ELSE Usernames
ArgHash(o) == IF o = "check_payment" THEN "h1" ELSE NoHash

\* Tasks are numbered in the order their requests arrive.
Start(p) ==
    /\ pc[p] = "idle"
    /\ \A q \in Procs : q < p => pc[q] # "idle"
    /\ \E o \in Ops :
         \E u \in ArgNames(o), d \in ArgDomains(o) :
           /\ op' = [op EXCEPT ![p] = o]
           /\ arg' = [arg EXCEPT ![p] = [u |-> u, d |-> d, h |-> ArgHash(o)]]
           /\ pc' = [pc EXCEPT ![p] = FirstPc(o)]
    /\ live' = [live EXCEPT ![p] = {q \in Procs : InFlight(q)}]
    /\ UNCHANGED <<fsVars, dbVars, lock, data, rid, cres, resp, file0, fsxVars, faults>>

\* ------------------------------------------------- check_and_add_nip05_entry
\* The body of "async with _nostr_json_lock" holds no await: acquire, load,
\* recheck, save and release run as one step, taken when the lock is free.

\* where a handler goes once check_and_add_nip05_entry returned False
AfterDenied(o) == IF o = "create_record" THEN "del_sel" ELSE "done"

RegisterDenied(p) ==
    /\ pc[p] = "reg_cs"
    /\ LockFree(lock)
    /\ LET d == arg[p].d
           names == LoadNames(file[d], bak[d])
       IN  /\ Matches(names, arg[p].u) # {}
           /\ cres' = [cres EXCEPT ![p] = "denied"]
           /\ pc' = [pc EXCEPT ![p] = AfterDenied(op[p])]
           /\ resp' = [resp EXCEPT ![p] =
                         IF op[p] = "create_record" THEN "none" ELSE "denied"]
    /\ UNCHANGED <<fsVars, dbVars, lock, reqVars, data, rid, file0, fsxVars, faults>>

RegisterAdd(p) ==
    /\ pc[p] = "reg_cs"
    /\ LockFree(lock)
    /\ LET d == arg[p].d
           names == LoadNames(file[d], bak[d])
       IN  /\ Matches(names, arg[p].u) = {}
           /\ \E out \in SaveOutcomes :
                /\ out # "ok" => faults < MaxFaults
                /\ out = "copy_fail" => file[d].kind # "missing"
                /\ LET s == SaveFile(file[d], bak[d], tmpf[d],
                                     Put(names, arg[p].u, Key(p)), out)
                   IN  /\ file' = [file EXCEPT ![d] = s.file]
                       /\ bak' = [bak EXCEPT ![d] = s.bak]
                       /\ tmpf' = [tmpf EXCEPT ![d] = s.tmpf]
                       /\ cres' = [cres EXCEPT ![p] =
                                     IF s.raised THEN "exc_file" ELSE "added"]
                       /\ pc' = [pc EXCEPT ![p] =
                                   IF s.raised THEN "done" ELSE "reg_upd"]
                       /\ resp' = [resp EXCEPT ![p] =
                                     IF s.raised THEN "error" ELSE "none"]
                /\ faults' = IF out = "ok" THEN faults ELSE faults + 1
    /\ UNCHANGED <<dbVars, lock, reqVars, data, rid, file0, fsxVars>>

\* db_update_nostr_json_status, after the lock was released: the UPDATE ...
RegDbUpdate(p) ==
    /\ pc[p] = "reg_upd"
    /\ dbw' = MarkInJson(dbw, arg[p].u, arg[p].d)
    /\ pc' = [pc EXCEPT ![p] = "reg_commit"]
    /\ UNCHANGED <<fsVars, dbc, lock, reqVars, data, rid, cres, resp, file0, fsxVars, faults>>

\* ... and its commit; check_and_add_nip05_entry then returns True.
RegDbCommit(p) ==
    /\ pc[p] = "reg_commit"
    /\ dbc' = dbw
    /\ cres' = [cres EXCEPT ![p] = "ok"]
    /\ pc' = [pc EXCEPT ![p] = IF op[p] = "register" THEN "ins_exec" ELSE "done"]
    /\ resp' = [resp EXCEPT ![p] = IF op[p] = "register" THEN "none" ELSE "ok"]
    /\ UNCHANGED <<fsVars, dbw, lock, reqVars, data, rid, file0, fsxVars, faults>>

\* The ledger is unavailable: the awaited statement raises.
RegDbFail(p) ==
    /\ pc[p] \in {"reg_upd", "reg_commit"}
    /\ faults < MaxFaults
    /\ faults' = faults + 1
    /\ cres' = [cres EXCEPT ![p] = "exc_db"]
    /\ resp' = [resp EXCEPT ![p] = "error"]
    /\ pc' = [pc EXCEPT ![p] = "done"]
    /\ UNCHANGED <<fsVars, dbVars, lock, reqVars, data, rid, file0, fsxVars>>

\* ------------------------------------------------- /api/register, the rest
\* db_insert_record(payment_completed=True, admin_only=True, in_nostr_json=True)
InsExec(p) ==
    /\ pc[p] = "ins_exec"
    /\ IF InsertOk(dbw, arg[p].u, arg[p].d)
       THEN /\ dbw' = Insert(dbw, arg[p].u, arg[p].d, NoHash, Key(p), TRUE, TRUE, TRUE)
            /\ pc' = [pc EXCEPT ![p] = "ins_commit"]
            /\ resp' = resp
       ELSE \* IntegrityError -> ValueError, not caught by the handler
            /\ dbw' = dbw
            /\ pc' = [pc EXCEPT ![p] = "done"]
            /\ resp' = [resp EXCEPT ![p] = "error"]
    /\ UNCHANGED <<fsVars, dbc, lock, reqVars, data, rid, cres, file0, fsxVars, faults>>

InsCommit(p) ==
    /\ pc[p] = "ins_commit"
    /\ dbc' = dbw
    /\ pc' = [pc EXCEPT ![p] = "done"]
    /\ resp' = [resp EXCEPT ![p] = "ok"]
    /\ UNCHANGED <<fsVars, dbw, lock, reqVars, data, rid, cres, file0, fsxVars, faults>>

\* ------------------------------------------------- POST /api/manage/records
\* db_create_admin_record: INSERT ... VALUES (?, ?, ?, 1, 1, ?, ?, 1) ...
AdmInsert(p) ==
    /\ pc[p] = "adm_ins"
    /\ IF InsertOk(dbw, arg[p].u, arg[p].d)
       THEN /\ dbw' = Insert(dbw, arg[p].u, arg[p].d, NoHash, Key(p), TRUE, TRUE, TRUE)
            /\ pc' = [pc EXCEPT ![p] = "adm_commit"]
            /\ resp' = resp
       ELSE \* IntegrityError -> ValueError -> 409
            /\ dbw' = dbw
            /\ pc' = [pc EXCEPT ![p] = "done"]
            /\ resp' = [resp EXCEPT ![p] = "conflict"]
    /\ UNCHANGED <<fsVars, dbc, lock, reqVars, data, rid, cres, file0, fsxVars, faults>>

\* ... and its commit; the handler then calls check_and_add_nip05_entry.
AdmCommit(p) ==
    /\ pc[p] = "adm_commit"
    /\ dbc' = dbw
    /\ pc' = [pc EXCEPT ![p] = "reg_cs"]
    /\ UNCHANGED <<fsVars, dbw, lock, reqVars, data, rid, cres, resp, file0, fsxVars, faults>>

\* db_delete_record after a denial: SELECT id ... WHERE LOWER(nip05) = ?
DelSelect(p) ==
    /\ pc[p] = "del_sel"
    /\ LET found == ByNip(dbw, arg[p].u, arg[p].d)
       IN  IF found = {}
           THEN /\ rid' = rid
                /\ pc' = [pc EXCEPT ![p] = "done"]
                /\ resp' = [resp EXCEPT ![p] = "conflict"]
           ELSE /\ rid' = [rid EXCEPT ![p] = (CHOOSE r \in found : TRUE).id]
                /\ pc' = [pc EXCEPT ![p] = "del_exec"]
                /\ resp' = resp
    /\ UNCHANGED <<fsVars, dbVars, lock, reqVars, data, cres, file0, fsxVars, faults>>

\* DELETE FROM records WHERE id = ?
DelExec(p) ==
    /\ pc[p] = "del_exec"
    /\ dbw' = DeleteId(dbw, rid[p])
    /\ pc' = [pc EXCEPT ![p] = "del_commit"]
    /\ UNCHANGED <<fsVars, dbc, lock, reqVars, data, rid, cres, resp, file0, fsxVars, faults>>

DelCommit(p) ==
    /\ pc[p] = "del_commit"
    /\ dbc' = dbw
    /\ pc' = [pc EXCEPT ![p] = "done"]
    /\ resp' = [resp EXCEPT ![p] = "conflict"]
    /\ UNCHANGED <<fsVars, dbw, lock, reqVars, data, rid, cres, file0, fsxVars, faults>>

\* ------------------------------------------------------ /api/check-payment
\* db_get_nip05_by_payment_hash(payment_hash) != f"{username}@{domain}" -> 400.
\* The stored nip05 is lower-cased, the expected one is the request's spelling.
HashKnown(db, h, u, d) == ByHash(db, h) # {}
HashBelongsTo(db, h, u, d) == \E r \in ByHash(db, h) : r.nip05 = <<u, d>>

CpLookup(p) ==
    /\ pc[p] = "cp_lookup"
    /\ IF HashBelongsTo(dbw, arg[p].h, arg[p].u, arg[p].d)
       THEN /\ pc' = [pc EXCEPT ![p] = "cp_pay"]
            /\ resp' = resp
       ELSE /\ pc' = [pc EXCEPT ![p] = "done"]
            /\ resp' = [resp EXCEPT ![p] = "bad"]
    /\ UNCHANGED <<fsVars, dbVars, lock, reqVars, data, rid, cres, file0, fsxVars, faults>>

\* The payment provider answers "not paid" (or not 200): {"paid": False}.
CpUnpaid(p) ==
    /\ pc[p] = "cp_pay"
    /\ pc' = [pc EXCEPT ![p] = "done"]
    /\ resp' = [resp EXCEPT ![p] = "unpaid"]
    /\ UNCHANGED <<fsVars, dbVars, lock, reqVars, data, rid, cres, file0, fsxVars, faults>>

\* -------------------------------------------- check_and_add_nip05_entry_atomic
\* The provider answered "paid".  Acquire the lock, load, recheck; a match
\* returns False and leaves the "async with" block at once.
AtomicDeniedStaged(p) ==
    /\ pc[p] = "cp_pay"
    /\ LockFree(lock)
    /\ LET d == arg[p].d
           names == LoadNames(file[d], bak[d])
       IN  Matches(names, arg[p].u) # {}
    /\ dbw' = MarkPaid(dbw, arg[p].h)
    /\ cres' = [cres EXCEPT ![p] = "denied"]
    /\ resp' = [resp EXCEPT ![p] = "denied"]
    /\ pc' = [pc EXCEPT ![p] = "done"]
    /\ UNCHANGED <<fsVars, dbc, lock, reqVars, data, rid, file0, fsxVars, faults>>
AtomicDenied(p) ==
    /\ pc[p] = "cp_pay"
    /\ LockFree(lock)
    /\ LET d == arg[p].d
           names == LoadNames(file[d], bak[d])
       IN  Matches(names, arg[p].u) # {}
    /\ cres' = [cres EXCEPT ![p] = "denied"]
    /\ resp' = [resp EXCEPT ![p] = "denied"]
    /\ pc' = [pc EXCEPT ![p] = "done"]
    /\ UNCHANGED <<fsVars, dbVars, lock, reqVars, data, rid, file0, fsxVars, faults>>

\* No match: the task goes on to await db.execute(UPDATE ...) holding the lock.
AtomicEnter(p) ==
    /\ pc[p] = "cp_pay"
    /\ LockFree(lock)
    /\ LET d == arg[p].d
           names == LoadNames(file[d], bak[d])
       IN  /\ Matches(names, arg[p].u) = {}
           /\ data' = [data EXCEPT ![p] = names]
    /\ lock' = p
    /\ pc' = [pc EXCEPT ![p] = "at_upd"]
    /\ UNCHANGED <<fsVars, dbVars, reqVars, rid, cres, resp, file0, fsxVars, faults>>

\* UPDATE records SET payment_completed=1, in_nostr_json=1 WHERE payment_hash=?
AtomicUpdate(p) ==
    /\ pc[p] = "at_upd"
    /\ dbw' = MarkPaid(dbw, arg[p].h)
    /\ pc' = [pc EXCEPT ![p] = "at_save"]
    /\ UNCHANGED <<fsVars, dbc, lock, reqVars, data, rid, cres, resp, file0, fsxVars, faults>>

\* data["names"][username] = pubkey_hex; save_nostr_json(data, domain)
\* A failure goes to the except branch (rollback), success to the commit.
AfterSave(raised) == IF raised THEN "at_rollback" ELSE "at_commit"
AtomicSave(p) ==
    /\ pc[p] = "at_save"
    /\ LET d == arg[p].d
       IN  \E out \in SaveOutcomes :
             /\ out # "ok" => faults < MaxFaults
             /\ out = "copy_fail" => file[d].kind # "missing"
             /\ LET s == SaveFile(file[d], bak[d], tmpf[d],
                                  Put(data[p], arg[p].u, Key(p)), out)
                IN  /\ file' = [file EXCEPT ![d] = s.file]
                    /\ bak' = [bak EXCEPT ![d] = s.bak]
                    /\ tmpf' = [tmpf EXCEPT ![d] = s.tmpf]
                    /\ pc' = [pc EXCEPT ![p] = AfterSave(s.raised)]
             /\ faults' = IF out = "ok" THEN faults ELSE faults + 1
    /\ UNCHANGED <<dbVars, lock, reqVars, data, rid, cres, resp, file0, fsxVars>>

\* The "async with _nostr_json_lock" block is left, by return or by exception:
\* __aexit__ releases the lock.
StillHeld(p) == p
Released(p) == NoProc

\* except Exception: await db.rollback(); raise   (the lock is released)
AtomicRollback(p) ==
    /\ pc[p] = "at_rollback"
    /\ dbw' = dbc
    /\ lock' = Released(p)
    /\ cres' = [cres EXCEPT ![p] = "exc_file"]
    /\ resp' = [resp EXCEPT ![p] = "error"]
    /\ pc' = [pc EXCEPT ![p] = "done"]
    /\ UNCHANGED <<fsVars, dbc, reqVars, data, rid, file0, fsxVars, faults>>

\* await db.commit(); the block ends, the lock is released; return True
AtomicCommit(p) ==
    /\ pc[p] = "at_commit"
    /\ dbc' = dbw
    /\ lock' = Released(p)
    /\ cres' = [cres EXCEPT ![p] = "ok"]
    /\ resp' = [resp EXCEPT ![p] = "ok"]
    /\ pc' = [pc EXCEPT ![p] = "done"]
    /\ UNCHANGED <<fsVars, dbw, reqVars, data, rid, file0, fsxVars, faults>>

\* The ledger is unavailable: db.execute or db.commit raises.  Neither is
\* inside the try block, so nothing is rolled back; the lock is released.
AtomicDbFail(p) ==
    /\ pc[p] \in {"at_upd", "at_commit"}
    /\ faults < MaxFaults
    /\ faults' = faults + 1
    /\ lock' = Released(p)
    /\ cres' = [cres EXCEPT ![p] = "exc_db"]
    /\ resp' = [resp EXCEPT ![p] = "error"]
    /\ pc' = [pc EXCEPT ![p] = "done"]
    /\ UNCHANGED <<fsVars, dbVars, reqVars, data, rid, file0, fsxVars>>

\* ----------------------------------------------- /api/cancel-registration
\* db_get_pending_record(nip05_full)
CnGet(p) ==
    /\ pc[p] = "cn_get"
    /\ LET found == PendingOf(dbw, arg[p].u, arg[p].d)
       IN  IF found = {}
           THEN /\ rid' = rid
                /\ pc' = [pc EXCEPT ![p] = "done"]
                /\ resp' = [resp EXCEPT ![p] = "nopending"]
           ELSE /\ rid' = [rid EXCEPT ![p] = (CHOOSE r \in found : TRUE).id]
                /\ pc' = [pc EXCEPT ![p] = "cn_del"]
                /\ resp' = resp
    /\ UNCHANGED <<fsVars, dbVars, lock, reqVars, data, cres, file0, fsxVars, faults>>

\* db_delete_record_by_id: DELETE FROM records WHERE id = ? ...
CnDelete(p) ==
    /\ pc[p] = "cn_del"
    /\ dbw' = DeleteId(dbw, rid[p])
    /\ pc' = [pc EXCEPT ![p] = "cn_commit"]
    /\ UNCHANGED <<fsVars, dbc, lock, reqVars, data, rid, cres, resp, file0, fsxVars, faults>>

\* ... and its commit
CnCommit(p) ==
    /\ pc[p] = "cn_commit"
    /\ dbc' = dbw
    /\ pc' = [pc EXCEPT ![p] = "done"]
    /\ resp' = [resp EXCEPT ![p] = "ok"]
    /\ UNCHANGED <<fsVars, dbw, lock, reqVars, data, rid, cres, file0, fsxVars, faults>>

\* ---------------------------------------------------- check_nip05_available
\* async with _nostr_json_lock: load, look for a case-insensitive match.
CaRead(p) ==
    /\ pc[p] = "ca_read"
    /\ LockFree(lock)
    /\ LET d == arg[p].d
           names == LoadNames(file[d], bak[d])
       IN  IF Matches(names, arg[p].u) # {}
           THEN /\ cres' = [cres EXCEPT ![p] = "taken"]
                /\ resp' = [resp EXCEPT ![p] = "taken"]
                /\ pc' = [pc EXCEPT ![p] = "done"]
           ELSE /\ cres' = cres
                /\ resp' = resp
                /\ pc' = [pc EXCEPT ![p] = "ca_query"]
    /\ UNCHANGED <<fsVars, dbVars, lock, reqVars, data, rid, file0, fsxVars, faults>>

\* SELECT 1 FROM records WHERE LOWER(nip05) = ?;  return row is None
LedgerFree(db, u, d) == ByNip(db, u, d) = {}

CaQuery(p) ==
    /\ pc[p] = "ca_query"
    /\ LET r == IF LedgerFree(dbw, arg[p].u, arg[p].d) THEN "avail" ELSE "taken"
       IN  /\ cres' = [cres EXCEPT ![p] = r]
           /\ resp' = [resp EXCEPT ![p] = r]
    /\ pc' = [pc EXCEPT ![p] = "done"]
    /\ UNCHANGED <<fsVars, dbVars, lock, reqVars, data, rid, file0, fsxVars, faults>>

\* ======================================= the registry calls, step by step
\* load_nostr_json, save_nostr_json and migrate_to_per_domain are synchronous:
\* no other task of the event loop runs inside them.  Their steps are the
\* points where a file call can fail or the process can stop.  The states
\* below are the files of one deployment across calls, failures and restarts;
\* the request handlers are not running.
srvVars == <<dbVars, lock, reqVars, pc, data, rid, cres, resp, file0, faults,
            authVars>>

PRIMARY_DOMAIN == "d1"
K1 == <<"k", 1>>
K2 == <<"k", 2>>
K3 == <<"k", 3>>
Alice1 == Put(NoNames, "alice", K1)

\* The files a deployment can be started on: a registry written by earlier
\* registrations, or a file damaged or replaced from outside.
FsFiles == {Other(k) : k \in FileKinds \ {"ok"}} \cup {OkFile(Alice1)}

\* The documents save_nostr_json is called with.
SaveDocs == {Doc("ok", Put(Alice1, "bob", K2)), Doc("nonames", NoNames),
             Doc("badnames", NoNames)}

\* The legacy file: absent, unparsable, of unknown shape, {"names": {...}}
\* or {"domains": {...}}.
OnlyIn(d, names) == [x \in Domains |-> IF x = d THEN names ELSE NoNames]
LegacyFiles ==
    {NoLegacy,
     [kind |-> "corrupt", names |-> NoLegacy.names],
     [kind |-> "unknown", names |-> NoLegacy.names],
     [kind |-> "names", names |-> OnlyIn(PRIMARY_DOMAIN, Put(NoNames, "Alice", K3))],
     [kind |-> "domains",
      names |-> [d \in Domains |-> IF d = "d1" THEN Put(NoNames, "alice", K3)
                                   ELSE Put(NoNames, "bob", K2)]]}

InitFs ==
    /\ file \in {[d \in Domains |-> IF d = "d1" THEN f ELSE Missing] : f \in FsFiles}
    /\ bak \in {[d \in Domains |-> IF d = "d1" THEN b ELSE Missing] : b \in FsFiles}
    /\ tmpf = [d \in Domains |-> FALSE]
    /\ legacy \in LegacyFiles
    /\ call = NoCall
    /\ ret = NoRet
    /\ pre = NoPre
    /\ token = "fresh"
    /\ pwdBy = {}
    /\ dbc = EmptyDb
    /\ dbw = dbc
    /\ lock = NoProc
    /\ op = [p \in Procs |-> "none"]
    /\ arg = [p \in Procs |-> NoArg]
    /\ pc = [p \in Procs |-> "idle"]
    /\ data = [p \in Procs |-> NoNames]
    /\ rid = [p \in Procs |-> NoId]
    /\ cres = [p \in Procs |-> "none"]
    /\ resp = [p \in Procs |-> "none"]
    /\ live = [p \in Procs |-> {}]
    /\ file0 = file
    /\ faults = 0

Snapshot(d) == [file |-> file[d], bak |-> bak[d], tmpf |-> tmpf[d]]
Idle == call.fn = "none"

\* The call ends: it returns, or an exception leaves it.  left: the temp file
\* the call created is still in the directory.  doc: the document returned
\* (for a save that was rejected or cut short, the document it was given).
Return(fn, doc) ==
    /\ ret' = [fn |-> fn, how |-> "returned", at |-> "end", doc |-> doc, left |-> FALSE]
    /\ call' = NoCall
Raise(fn, at, left) ==
    /\ ret' = [fn |-> fn, how |-> "raised", at |-> at, doc |-> EmptyDoc, left |-> left]
    /\ call' = NoCall
Goto(at) == /\ call' = [call EXCEPT !.at = at]
            /\ ret' = ret

\* ----------------------------------------------------------- load_nostr_json
FsLoad ==
    /\ Idle
    /\ \E d \in {"d1"} :
         /\ pre' = Snapshot(d)
         /\ LET r == Load(file[d], bak[d])
            IN  IF r.raised THEN Raise("load", "load", FALSE)
                ELSE Return("load", r.doc)
    /\ UNCHANGED <<fsVars, legacy, srvVars>>

\* ----------------------------------------------------------- save_nostr_json
\* if not isinstance(data.get("names"), dict): raise ValueError(...)
SaveCall ==
    /\ Idle
    /\ \E d \in {"d1"}, doc \in SaveDocs :
         /\ pre' = Snapshot(d)
         /\ IF ValidDoc(doc)
            THEN /\ call' = [fn |-> "save", at |-> "copy", d |-> d, doc |-> doc,
                            tmp |-> "none"]
                 /\ ret' = NoRet
            ELSE /\ ret' = [fn |-> "save", how |-> "raised", at |-> "validate",
                            doc |-> doc, left |-> FALSE]
                 /\ call' = NoCall
    /\ UNCHANGED <<fsVars, legacy, srvVars>>

\* if nostr_json_path.exists(): shutil.copy2(nostr_json_path, backup_path)
\* copy2 opens the source, then truncates and fills the destination.
SaveCopy ==
    /\ call.fn = "save" /\ call.at = "copy"
    /\ LET d == call.d
       IN  \/ /\ file[d].kind = "missing"
              /\ Goto("mkdir")
              /\ bak' = bak
           \/ /\ file[d].kind \notin {"missing", "unreadable"}
              /\ Goto("mkdir")
              /\ bak' = [bak EXCEPT ![d] = file[d]]
           \/ /\ file[d].kind # "missing"
              /\ Raise("save", "copy", FALSE)
              /\ \/ bak' = bak
                 \/ /\ file[d].kind # "unreadable"
                    /\ bak' = [bak EXCEPT ![d] = Other("corrupt")]
    /\ UNCHANGED <<file, tmpf, legacy, pre, srvVars>>

\* ---------------------------------------------------------- _atomic_write_json
\* path.parent.mkdir(parents=True, exist_ok=True), outside the try block
WMkdir ==
    /\ call.fn = "save" /\ call.at = "mkdir"
    /\ \/ Goto("mktemp")
       \/ Raise("save", "mkdir", FALSE)
    /\ UNCHANGED <<fsVars, legacy, pre, srvVars>>

\* tempfile.NamedTemporaryFile(mode='w', dir=path.parent, delete=False, ...)
WMktemp ==
    /\ call.fn = "save" /\ call.at = "mktemp"
    /\ \/ /\ call' = [call EXCEPT !.at = "dump", !.tmp = "empty"]
          /\ ret' = ret
       \/ Raise("save", "mktemp", FALSE)
    /\ UNCHANGED <<fsVars, legacy, pre, srvVars>>

\* json.dump(data, tmp, indent=2).  On an exception the with block closes the
\* temp file; tmp_path is still None, so the except clause unlinks nothing.
\* The temp file is a path of its own: the target f keeps its content.
DumpInPlace(f, doc, ok) == IF ok THEN FileOf(doc) ELSE Other("corrupt")
TargetAfterDump(f, doc, ok) == f
WDump ==
    /\ call.fn = "save" /\ call.at = "dump"
    /\ LET d == call.d
       IN  \/ /\ call' = [call EXCEPT !.at = "sync", !.tmp = "full"]
              /\ ret' = ret
              /\ tmpf' = tmpf
              /\ file' = [file EXCEPT ![d] = TargetAfterDump(file[d], call.doc, TRUE)]
           \/ /\ Raise("save", "dump", TRUE)
              /\ tmpf' = [tmpf EXCEPT ![d] = TRUE]
              /\ file' = [file EXCEPT ![d] = TargetAfterDump(file[d], call.doc, FALSE)]
    /\ UNCHANGED <<bak, legacy, pre, srvVars>>

\* tmp.flush(); os.fsync(tmp.fileno()); tmp_path = tmp.name
WSync ==
    /\ call.fn = "save" /\ call.at = "sync"
    /\ \/ /\ Goto("move")
          /\ tmpf' = tmpf
       \/ /\ Raise("save", "sync", TRUE)
          /\ tmpf' = [tmpf EXCEPT ![call.d] = TRUE]
    /\ UNCHANGED <<file, bak, legacy, pre, srvVars>>

\* shutil.move(tmp_path, path): a rename inside one directory.  When it
\* raises, the except clause unlinks the temp file.
Torn(doc) == Other("corrupt")
Renamed(doc) == FileOf(doc)
WMove ==
    /\ call.fn = "save" /\ call.at = "move"
    /\ \/ /\ call' = [call EXCEPT !.at = "chmod", !.tmp = "none"]
          /\ ret' = ret
          /\ file' = [file EXCEPT ![call.d] = Renamed(call.doc)]
       \/ /\ Raise("save", "move", FALSE)
          /\ file' = file
    /\ UNCHANGED <<bak, tmpf, legacy, pre, srvVars>>

\* os.chmod(path, 0o644)
WChmod ==
    /\ call.fn = "save" /\ call.at = "chmod"
    /\ \/ Return("save", call.doc)
       \/ Raise("save", "chmod", FALSE)
    /\ UNCHANGED <<fsVars, legacy, pre, srvVars>>

\* The process stops inside the call; the files stay as they are.
Crash ==
    /\ call.fn = "save"
    /\ ret' = [fn |-> "save", how |-> "crashed", at |-> call.at, doc |-> call.doc,
               left |-> call.tmp # "none"]
    /\ tmpf' = [tmpf EXCEPT ![call.d] = tmpf[call.d] \/ call.tmp # "none"]
    /\ call' = NoCall
    /\ UNCHANGED <<file, bak, legacy, pre, srvVars>>

\* ------------------------------------------------------ migrate_to_per_domain
\* Runs at startup, before requests are served.
\* domains_dict: {"domains": {...}} as it is, {"names": {...}} under the
\* primary domain.
DomainsDict(l) == l.names
Recognized(l) == l.kind \in {"domains", "names"}

\* existing.get("names", {}) of the destination; {} when the file is absent,
\* not JSON or unreadable.
ExistingNames(f) == IF f.kind = "ok" THEN f.names ELSE NoNames

\* merged = {**existing_names, **names}
MergedExistingWins(existing, names) ==
    [x \in (DOMAIN existing) \cup (DOMAIN names) |->
        IF x \in DOMAIN existing THEN existing[x] ELSE names[x]]
Merged(existing, names) ==
    [x \in (DOMAIN existing) \cup (DOMAIN names) |->
        IF x \in DOMAIN names THEN names[x] ELSE existing[x]]

\* The loop visits the domains in the order of the legacy file.
DomIndex(d) == IF d = "d1" THEN 1 ELSE 2

\* ------------------------------------------------- check_and_add_nip05_entry
\* The critical section of check_and_add_nip05_entry on the files of the
\* primary domain: load, default "names", scan, add, save.  It holds no await
\* and is one step.  open() of the primary may raise OSError although the
\* file is intact (EIO, EMFILE, a permission changed for a moment); the load
\* then takes its "except OSError" branch.
ReadOutcomes == {"ok", "oserror"}
Seen(f, rd) == IF rd = "oserror" /\ f.kind # "missing" THEN Other("unreadable") ELSE f
RegNames == {"bob"}
FsRegister ==
    /\ Idle
    /\ pre' = Snapshot(PRIMARY_DOMAIN)
    /\ call' = NoCall
    /\ \E u \in RegNames, rd \in ReadOutcomes, out \in SaveOutcomes :
         LET d == PRIMARY_DOMAIN
             r == Load(Seen(file[d], rd), bak[d])
             doc == Doc("ok", Put(r.doc.names, u, K2))
         IN  IF r.raised
             THEN /\ ret' = [fn |-> "register", how |-> "raised", at |-> "load",
                             doc |-> EmptyDoc, left |-> FALSE]
                  /\ UNCHANGED fsVars
             ELSE IF Matches(r.doc.names, u) # {}
             THEN /\ ret' = [fn |-> "register", how |-> "returned", at |-> "denied",
                             doc |-> r.doc, left |-> FALSE]
                  /\ UNCHANGED fsVars
             ELSE /\ out = "copy_fail" => file[d].kind # "missing"
                  /\ file[d].kind = "unreadable" => out = "copy_fail"
                  /\ LET s == SaveFile(file[d], bak[d], tmpf[d], doc.names, out)
                     IN  /\ file' = [file EXCEPT ![d] = s.file]
                         /\ bak' = [bak EXCEPT ![d] = s.bak]
                         /\ tmpf' = [tmpf EXCEPT ![d] = s.tmpf]
                         /\ ret' = [fn |-> "register",
                                    how |-> IF s.raised THEN "raised" ELSE "returned",
                                    at |-> IF s.raised THEN out ELSE "added",
                                    doc |-> doc, left |-> s.tmpf]
    /\ UNCHANGED <<legacy, srvVars>>

\* The early returns of the migration: legacy file absent, not readable as
\* JSON, or of an unknown format.
SkippedAt(l) ==
    CASE l.kind = "missing" -> "nolegacy"
      [] l.kind = "corrupt" -> "unreadable"
      [] OTHER              -> "unknown"
ReturnAt(fn, at) ==
    /\ ret' = [fn |-> fn, how |-> "returned", at |-> at, doc |-> EmptyDoc, left |-> FALSE]
    /\ call' = NoCall

\* _LEGACY_NOSTR_JSON.rename(migrated_path): the legacy path no longer exists.
LegacyLeft(l) == l
RenamedLegacy(l) == NoLegacy

\* _nostr_json_lock is held by the caller of save_nostr_json: every call of it
\* is inside an "async with _nostr_json_lock" block.  migrate_to_per_domain
\* calls _atomic_write_json directly and takes no lock.  The critical section
\* of check_and_add_nip05_entry is itself such a block.
WriterHoldsLock == call.fn = "save" \/ ret'.fn = "register"

\* The cleanup at import of main.py: *.tmp.json files found in WELL_KNOWN_DIR
\* are removed.  WELL_KNOWN_DIR is BASE_DIR/.well-known, the directory of the
\* legacy file; the directories NOSTR_DATA_DIR/<domain>/.well-known, where
\* _atomic_write_json creates its temp files, are not visited.
GlobbedAtStartup(d) == FALSE
StartupCleanup ==
    /\ Idle
    /\ pre' = Snapshot(PRIMARY_DOMAIN)
    /\ tmpf' = [d \in Domains |-> IF GlobbedAtStartup(d) THEN FALSE ELSE tmpf[d]]
    /\ ReturnAt("startup", "end")
    /\ UNCHANGED <<file, bak, legacy, srvVars>>

Migrate ==
    /\ Idle
    /\ pre' = Snapshot(PRIMARY_DOMAIN)
    /\ IF ~Recognized(legacy)
       THEN \* no legacy file, unreadable, or unknown format: return
            /\ ReturnAt("migrate", SkippedAt(legacy))
            /\ UNCHANGED <<file, legacy>>
       ELSE LET dict == DomainsDict(legacy)
                todo == {d \in Domains : dict[d] # NoNames}
                bad == {d \in todo : Parse(file[d]) \in Uncaught}
                stop == {d \in todo : \E b \in bad : DomIndex(b) <= DomIndex(d)}
            IN  \E out \in {"ok", "write_fail"} :
                  LET failed == IF out = "ok" THEN stop ELSE todo
                  IN  /\ file' = [d \in Domains |->
                                   IF d \in todo \ failed
                                   THEN OkFile(Merged(ExistingNames(file[d]), dict[d]))
                                   ELSE file[d]]
                      /\ IF failed = {}
                         THEN /\ legacy' = RenamedLegacy(legacy)
                              /\ Return("migrate", EmptyDoc)
                         ELSE /\ legacy' = legacy
                              /\ Raise("migrate", "merge", FALSE)
    /\ UNCHANGED <<bak, tmpf, srvVars>>

NextFs ==
    \/ FsLoad
    \/ SaveCall
    \/ SaveCopy
    \/ WMkdir
    \/ WMktemp
    \/ WDump
    \/ WSync
    \/ WMove
    \/ WChmod
    \/ Crash
    \/ Migrate
    \/ StartupCleanup
    \/ FsRegister

SpecFs == InitFs /\ [][NextFs]_vars

\* ====================================================== /api/create-invoice
\* The payment endpoints on the shared ledger connection: create-invoice,
\* check-payment and cancel-registration.  SpecPay runs these handlers alone.

\* The payment hashes the provider may return: payment_hash, checking_id or id
\* of its response, whatever they are.
Hashes == {"h1", "h2"}

PayOps == {"create_invoice", "check_payment", "cancel"}

StartPay(p) ==
    /\ pc[p] = "idle"
    /\ \A q \in Procs : q < p => pc[q] # "idle"
    /\ \E o \in PayOps :
         \E u \in ArgNames(o), d \in ArgDomains(o) :
           /\ op' = [op EXCEPT ![p] = o]
           /\ arg' = [arg EXCEPT ![p] = [u |-> u, d |-> d, h |-> ArgHash(o)]]
           /\ pc' = [pc EXCEPT ![p] = FirstPc(o)]
    /\ live' = [live EXCEPT ![p] = {q \in Procs : InFlight(q)}]
    /\ UNCHANGED <<fsVars, dbVars, lock, data, rid, cres, resp, file0, fsxVars, faults>>

\* pending_record = await db_get_pending_record(nip05_full)
CiGet(p) ==
    /\ pc[p] = "ci_get"
    /\ LET found == PendingOf(dbw, arg[p].u, arg[p].d)
       IN  IF found = {}
           THEN /\ rid' = rid
                /\ pc' = [pc EXCEPT ![p] = "ci_post"]
           ELSE /\ rid' = [rid EXCEPT ![p] = (CHOOSE r \in found : TRUE).id]
                /\ pc' = [pc EXCEPT ![p] = "ci_status"]
    /\ UNCHANGED <<fsVars, dbVars, lock, reqVars, data, cres, resp, file0, fsxVars, faults>>

\* The provider's answers about the existing invoice: paid, still payable, or
\* expired.  Only the expired invoice leads on to the delete.
CiStatus(p) ==
    /\ pc[p] = "ci_status"
    /\ \E answer \in {"already_paid", "pending", "expired"} :
         IF answer = "expired"
         THEN /\ pc' = [pc EXCEPT ![p] = "ci_del"]
              /\ resp' = resp
         ELSE /\ pc' = [pc EXCEPT ![p] = "done"]
              /\ resp' = [resp EXCEPT ![p] = answer]
    /\ UNCHANGED <<fsVars, dbVars, lock, reqVars, data, rid, cres, file0, fsxVars, faults>>

\* await db_delete_record_by_id(pending_record["id"]): the DELETE ...
CiDelete(p) ==
    /\ pc[p] = "ci_del"
    /\ dbw' = DeleteId(dbw, rid[p])
    /\ pc' = [pc EXCEPT ![p] = "ci_delcommit"]
    /\ UNCHANGED <<fsVars, dbc, lock, reqVars, data, rid, cres, resp, file0, fsxVars, faults>>

\* ... and its commit
CiDelCommit(p) ==
    /\ pc[p] = "ci_delcommit"
    /\ dbc' = dbw
    /\ pc' = [pc EXCEPT ![p] = "ci_post"]
    /\ UNCHANGED <<fsVars, dbw, lock, reqVars, data, rid, cres, resp, file0, fsxVars, faults>>

\* POST /api/v1/payments: the provider refuses, or returns an invoice with a
\* payment hash of its choosing.
CiPost(p) ==
    /\ pc[p] = "ci_post"
    /\ \/ /\ pc' = [pc EXCEPT ![p] = "done"]
          /\ resp' = [resp EXCEPT ![p] = "error"]
          /\ arg' = arg
       \/ \E h \in Hashes :
            /\ arg' = [arg EXCEPT ![p].h = h]
            /\ pc' = [pc EXCEPT ![p] = "ci_ins"]
            /\ resp' = resp
    /\ UNCHANGED <<fsVars, dbVars, lock, op, live, data, rid, cres, file0, fsxVars, faults>>

\* db_insert_record_with_payment: the INSERT.  The table constrains nip05
\* (UNIQUE) and nothing else; a duplicate raises IntegrityError.
CiInsert(p) ==
    /\ pc[p] = "ci_ins"
    /\ IF InsertOk(dbw, arg[p].u, arg[p].d)
       THEN /\ dbw' = Insert(dbw, arg[p].u, arg[p].d, arg[p].h, Key(p),
                             FALSE, FALSE, FALSE)
            /\ pc' = [pc EXCEPT ![p] = "ci_commit"]
       ELSE /\ dbw' = dbw
            /\ pc' = [pc EXCEPT ![p] = "ci_rollback"]
    /\ UNCHANGED <<fsVars, dbc, lock, reqVars, data, rid, cres, resp, file0, fsxVars, faults>>

\* await db.commit()
CiCommit(p) ==
    /\ pc[p] = "ci_commit"
    /\ dbc' = dbw
    /\ pc' = [pc EXCEPT ![p] = "done"]
    /\ resp' = [resp EXCEPT ![p] = "created"]
    /\ UNCHANGED <<fsVars, dbw, lock, reqVars, data, rid, cres, file0, fsxVars, faults>>

\* except IntegrityError: await db.rollback(); the ValueError is logged by the
\* handler, which answers "created" all the same.
CiRollback(p) ==
    /\ pc[p] = "ci_rollback"
    /\ dbw' = dbc
    /\ pc' = [pc EXCEPT ![p] = "done"]
    /\ resp' = [resp EXCEPT ![p] = "created"]
    /\ UNCHANGED <<fsVars, dbc, lock, reqVars, data, rid, cres, file0, fsxVars, faults>>

NextPay ==
    \E p \in Procs :
        \/ StartPay(p)
        \/ CiGet(p)
        \/ CiStatus(p)
        \/ CiDelete(p)
        \/ CiDelCommit(p)
        \/ CiPost(p)
        \/ CiInsert(p)
        \/ CiCommit(p)
        \/ CiRollback(p)
        \/ CpLookup(p)
        \/ CpUnpaid(p)
        \/ AtomicDenied(p)
        \/ AtomicEnter(p)
        \/ AtomicUpdate(p)
        \/ AtomicSave(p)
        \/ AtomicRollback(p)
        \/ AtomicCommit(p)
        \/ AtomicDbFail(p)
        \/ CnGet(p)
        \/ CnDelete(p)
        \/ CnCommit(p)

SpecPay == Init /\ [][NextPay]_vars

\* ==================================== PUT and DELETE /api/manage/records
\* The admin handlers that change or remove an existing record.  SpecAdmin
\* runs them next to /api/register, which creates completed records.

\* Python binds a call's arguments before the body runs: a call that leaves
\* out a required parameter raises TypeError.  load_nostr_json(domain) and
\* save_nostr_json(data, domain) both require "domain".
BindLoad(args) == IF "domain" \in args THEN "bound" ELSE "TypeError"
\* nostr_data = load_nostr_json()
AdminLoadArgs == {}

\* UPDATE records SET npub = ?, pubkey_hex = ? ... WHERE LOWER(nip05) = ?
SetKey(db, u, d, k) ==
    [db EXCEPT !.rows = {IF r.nip05 = Nip(u, d) THEN [r EXCEPT !.key = k] ELSE r
                         : r \in db.rows}]

AdminOps == {"register", "update_record", "delete_record"}

StartAdmin(p) ==
    /\ pc[p] = "idle"
    /\ \A q \in Procs : q < p => pc[q] # "idle"
    /\ \E o \in AdminOps :
         \E u \in ArgNames(o), d \in ArgDomains(o) :
           /\ op' = [op EXCEPT ![p] = o]
           /\ arg' = [arg EXCEPT ![p] = [u |-> u, d |-> d, h |-> ArgHash(o)]]
           /\ pc' = [pc EXCEPT ![p] = FirstPc(o)]
    /\ live' = [live EXCEPT ![p] = {q \in Procs : InFlight(q)}]
    /\ UNCHANGED <<fsVars, dbVars, lock, data, rid, cres, resp, file0, fsxVars, faults>>

\* manage_update_record: db_update_record_pubkey, the UPDATE ...
UpdExec(p) ==
    /\ pc[p] = "upd_exec"
    /\ rid' = [rid EXCEPT ![p] =
                 IF ByNip(dbw, arg[p].u, arg[p].d) = {} THEN NoId
                 ELSE (CHOOSE r \in ByNip(dbw, arg[p].u, arg[p].d) : TRUE).id]
    /\ dbw' = SetKey(dbw, arg[p].u, arg[p].d, Key(p))
    /\ pc' = [pc EXCEPT ![p] = "upd_commit"]
    /\ UNCHANGED <<fsVars, dbc, lock, reqVars, data, cres, resp, file0, fsxVars, faults>>

\* ... its commit, and success = cursor.rowcount > 0; no row: 404
UpdCommit(p) ==
    /\ pc[p] = "upd_commit"
    /\ dbc' = dbw
    /\ IF rid[p] = NoId
       THEN /\ pc' = [pc EXCEPT ![p] = "done"]
            /\ resp' = [resp EXCEPT ![p] = "notfound"]
       ELSE /\ pc' = [pc EXCEPT ![p] = "upd_cs"]
            /\ resp' = resp
    /\ UNCHANGED <<fsVars, dbw, lock, reqVars, data, rid, cres, file0, fsxVars, faults>>

\* async with _nostr_json_lock: nostr_data = load_nostr_json() raises
\* TypeError; the block is left, the lock released, the request fails.  The
\* lines after the call (the lookup under "domains", save_nostr_json) are
\* not reached.
UpdFile(p) ==
    /\ pc[p] = "upd_cs"
    /\ LockFree(lock)
    /\ BindLoad(AdminLoadArgs) = "TypeError"
    /\ pc' = [pc EXCEPT ![p] = "done"]
    /\ resp' = [resp EXCEPT ![p] = "error"]
    /\ UNCHANGED <<fsVars, dbVars, lock, reqVars, data, rid, cres, file0, fsxVars, faults>>

\* manage_delete_record: SELECT nip05 FROM records WHERE id = ?, for the id
\* of the record listed for username@domain; no row: 404
AdlSelect(p) ==
    /\ pc[p] = "adl_sel"
    /\ LET found == ByNip(dbw, arg[p].u, arg[p].d)
       IN  IF found = {}
           THEN /\ rid' = rid
                /\ pc' = [pc EXCEPT ![p] = "done"]
                /\ resp' = [resp EXCEPT ![p] = "notfound"]
           ELSE /\ rid' = [rid EXCEPT ![p] = (CHOOSE r \in found : TRUE).id]
                /\ pc' = [pc EXCEPT ![p] = "adl_cs"]
                /\ resp' = resp
    /\ UNCHANGED <<fsVars, dbVars, lock, reqVars, data, cres, file0, fsxVars, faults>>

\* async with _nostr_json_lock: nostr_data = load_nostr_json() raises
\* TypeError; neither the removal from the file nor db_delete_record, which
\* follows the block, is reached.
AdlFile(p) ==
    /\ pc[p] = "adl_cs"
    /\ LockFree(lock)
    /\ BindLoad(AdminLoadArgs) = "TypeError"
    /\ pc' = [pc EXCEPT ![p] = "done"]
    /\ resp' = [resp EXCEPT ![p] = "error"]
    /\ UNCHANGED <<fsVars, dbVars, lock, reqVars, data, rid, cres, file0, fsxVars, faults>>

NextAdmin ==
    \E p \in Procs :
        \/ StartAdmin(p)
        \/ RegisterDenied(p)
        \/ RegisterAdd(p)
        \/ RegDbUpdate(p)
        \/ RegDbCommit(p)
        \/ RegDbFail(p)
        \/ InsExec(p)
        \/ InsCommit(p)
        \/ UpdExec(p)
        \/ UpdCommit(p)
        \/ UpdFile(p)
        \/ AdlSelect(p)
        \/ AdlFile(p)

SpecAdmin == Init /\ [][NextAdmin]_vars

\* ================================ /api/manage/password-reset/confirm
\* One user has asked for a password reset and holds the token that
\* create_password_reset_token stored (used = 0, expires in one hour).
\* SpecReset runs confirm_password_reset calls that present this token.

\* The user the token was issued to.
ResetUser == 1
\* The tokens a request may present: the one issued, and one the table does
\* not hold.
IssuedToken == "t1"
Tokens == {"t1", "t2"}

StartReset(p) ==
    /\ pc[p] = "idle"
    /\ \A q \in Procs : q < p => pc[q] # "idle"
    /\ op' = [op EXCEPT ![p] = "reset_confirm"]
    /\ \E t \in Tokens : arg' = [arg EXCEPT ![p].h = t]
    /\ pc' = [pc EXCEPT ![p] = FirstPc("reset_confirm")]
    /\ live' = [live EXCEPT ![p] = {q \in Procs : InFlight(q)}]
    /\ UNCHANGED <<fsVars, dbVars, lock, data, rid, cres, resp, file0, faults,
                   fsxVars>>

\* The hour passes: expires_at > now no longer holds.
Expire ==
    /\ token = "fresh"
    /\ token' = "expired"
    /\ UNCHANGED <<fsVars, dbVars, lock, reqVars, pc, data, rid, cres, resp, file0,
                   faults, legacy, call, ret, pre, pwdBy>>

\* SELECT user_id FROM password_reset_tokens
\*   WHERE token = ? AND used = 0 AND expires_at > ?
TokenValid(t, given) == given = IssuedToken /\ t = "fresh"

\* user_id = await verify_password_reset_token(data.token); None: 400
RsVerify(p) ==
    /\ pc[p] = "rs_verify"
    /\ IF TokenValid(token, arg[p].h)
       THEN /\ rid' = [rid EXCEPT ![p] = ResetUser]
            /\ pc' = [pc EXCEPT ![p] = "rs_pwd"]
            /\ resp' = resp
       ELSE /\ rid' = rid
            /\ pc' = [pc EXCEPT ![p] = "done"]
            /\ resp' = [resp EXCEPT ![p] = "invalid"]
    /\ UNCHANGED <<fsVars, dbVars, lock, reqVars, data, cres, file0, faults, fsxVars>>

\* update_user_password: UPDATE users SET password_hash = ? WHERE id = ? ...
RsPassword(p) ==
    /\ pc[p] = "rs_pwd"
    /\ pwdBy' = pwdBy \cup {p}
    /\ pc' = [pc EXCEPT ![p] = "rs_pwd_commit"]
    /\ UNCHANGED <<fsVars, dbVars, lock, reqVars, data, rid, cres, resp, file0, faults,
                   legacy, call, ret, pre, token>>

\* ... and its commit
RsPasswordCommit(p) ==
    /\ pc[p] = "rs_pwd_commit"
    /\ pc' = [pc EXCEPT ![p] = "rs_use"]
    /\ UNCHANGED <<fsVars, dbVars, lock, reqVars, data, rid, cres, resp, file0, faults,
                   fsxVars>>

\* use_password_reset_token: UPDATE password_reset_tokens SET used = 1
\*   WHERE token = ? ...
RsUse(p) ==
    /\ pc[p] = "rs_use"
    /\ token' = IF arg[p].h = IssuedToken THEN "used" ELSE token
    /\ pc' = [pc EXCEPT ![p] = "rs_use_commit"]
    /\ UNCHANGED <<fsVars, dbVars, lock, reqVars, data, rid, cres, resp, file0, faults,
                   legacy, call, ret, pre, pwdBy>>

\* ... its commit; "Password updated successfully"
RsUseCommit(p) ==
    /\ pc[p] = "rs_use_commit"
    /\ pc' = [pc EXCEPT ![p] = "done"]
    /\ resp' = [resp EXCEPT ![p] = "ok"]
    /\ UNCHANGED <<fsVars, dbVars, lock, reqVars, data, rid, cres, file0, faults,
                   fsxVars>>

NextReset ==
    \/ Expire
    \/ \E p \in Procs :
        \/ StartReset(p)
        \/ RsVerify(p)
        \/ RsPassword(p)
        \/ RsPasswordCommit(p)
        \/ RsUse(p)
        \/ RsUseCommit(p)

SpecReset == Init /\ [][NextReset]_vars

\* =================================================================== claims
\* Case-insensitive equality of usernames, as the specification states it.
SameName(a, b) == Lower(a) = Lower(b)
CiKeys(names, u) == {k \in DOMAIN names : SameName(k, u)}
NamesOf(d) == IF file[d].kind = "ok" THEN DOMAIN file[d].names ELSE {}
RegOps == {"register", "create_record"}

\* --- C1
\* Register calls for one case-insensitive username of one domain, the name
\* absent at start and no payment confirmation competing for it: once two or
\* more such calls have all returned without an exception, exactly one returned
\* True, all the others returned False, and the registry file holds exactly
\* one key matching the username.
C1_Callers(u, d) ==
    {p \in Procs : /\ op[p] \in RegOps
                   /\ SameName(arg[p].u, u) /\ arg[p].d = d
                   /\ cres[p] # "none"}

C1_ExactlyOneWinner ==
    \A u \in {"alice"}, d \in Domains :
      LET G == C1_Callers(u, d)
      IN  ( /\ Cardinality(G) >= 2
            /\ \A p \in G : cres[p] \in {"ok", "denied"}
            /\ CiKeys(LoadNames(file0[d], Missing), u) = {}
            /\ \A q \in Procs : op[q] = "check_payment" => arg[q].d # d )
          => /\ Cardinality({p \in G : cres[p] = "ok"}) = 1
             /\ Cardinality({p \in G : cres[p] = "denied"}) = Cardinality(G) - 1
             /\ Cardinality({k \in NamesOf(d) : SameName(k, u)}) = 1

\* Two overlapping /api/register calls for "alice" and "Alice": one won, the
\* other, which arrived while the first was in flight, was denied.
C1_Witness ==
    \E p, q \in Procs :
      /\ p # q
      /\ op[p] = "register" /\ op[q] = "register"
      /\ arg[p].u # arg[q].u /\ arg[p].d = arg[q].d
      /\ p \in live[q]
      /\ cres[p] = "ok" /\ cres[q] = "denied"

\* The ledger row of payment hash h is marked payment_completed in db.
Paid(db, h) == \E r \in ByHash(db, h) : r.paid
\* The registry file of p's domain holds p's username.
FileHasName(p) == arg[p].u \in NamesOf(arg[p].d)

\* --- C2
\* The UPDATE staged by check_and_add_nip05_entry_atomic is committed only
\* after the registry file was written: whenever a step makes a row with a
\* payment hash durable as payment_completed, the registry file of the row's
\* domain already holds the row's username.
C2_CommitOnlyAfterSave ==
    [][ \A r \in dbc'.rows :
          ( /\ r.hash # NoHash /\ r.paid
            /\ ~Paid(dbc, r.hash) )
          => r.nip05[1] \in NamesOf(r.nip05[2]) ]_vars

\* --- C3
\* When check_and_add_nip05_entry_atomic raises out of save_nostr_json, then
\* at the moment the error propagates the ledger row is still
\* payment_completed=false (on the connection and durably) and the registry
\* file still lacks the username.
C3_FailedSaveLeavesNothing ==
    [][ \A p \in Procs :
          ( /\ op[p] = "check_payment"
            /\ cres[p] # "exc_file" /\ cres'[p] = "exc_file" )
          => /\ ~Paid(dbw', arg[p].h)
             /\ ~Paid(dbc', arg[p].h)
             /\ arg[p].u \notin (IF file'[arg[p].d].kind = "ok"
                                 THEN DOMAIN file'[arg[p].d].names ELSE {}) ]_vars

\* --- C4
\* After any outcome of check_and_add_nip05_entry_atomic, with the lock free,
\* the two stores agree on the registration: the registry file maps the
\* username to the confirmed pubkey exactly when the ledger row of the payment
\* hash is durably payment_completed and in_nostr_json.
C4_FileReflects(p) ==
    /\ FileHasName(p)
    /\ file[arg[p].d].names[arg[p].u] = PendingKey
C4_LedgerReflects(p) ==
    \E r \in ByHash(dbc, arg[p].h) : r.paid /\ r.inj
C4_BothOrNeither ==
    LockFree(lock) =>
      \A p \in Procs :
        (op[p] = "check_payment" /\ cres[p] # "none")
        => (C4_FileReflects(p) <=> C4_LedgerReflects(p))

\* --- C5
\* Whenever no critical section is running, every durable ledger record with
\* in_nostr_json=true has its username in the registry of its domain, and
\* every payment-completed record whose username is in the registry has
\* in_nostr_json=true.
C5_OwnershipInvariant ==
    LockFree(lock) =>
      \A r \in dbc.rows :
        LET inFile == \E k \in NamesOf(r.nip05[2]) : SameName(k, r.nip05[1])
        IN  /\ r.inj => inFile
            /\ (r.paid /\ inFile) => r.inj

\* --- C6
\* After check_and_add_nip05_entry added (u, key) to domain d: the registry
\* file of d maps u, spelled as given, to key, exactly one key of the registry
\* equals u case-insensitively, and every check_nip05_available for any
\* spelling of u in d that then takes the lock finds the name taken.
C6_Succeeded(p) == op[p] \in RegOps /\ cres[p] \in {"added", "ok"}
C6_State ==
    \A p \in Procs :
      C6_Succeeded(p) =>
        /\ FileHasName(p)
        /\ file[arg[p].d].names[arg[p].u] = Key(p)
        /\ Cardinality({k \in NamesOf(arg[p].d) : SameName(k, arg[p].u)}) = 1
C6_Act ==
    \A q \in Procs :
      ( /\ op[q] = "check_avail" /\ pc[q] = "ca_read" /\ pc'[q] # "ca_read"
        /\ \E p \in Procs : /\ C6_Succeeded(p)
                            /\ SameName(arg[p].u, arg[q].u)
                            /\ arg[p].d = arg[q].d )
      => cres'[q] = "taken"
C6_AfterRegister == [][C6_Act /\ C6_State']_vars

\* /api/register added "alice"; a check_nip05_available for the other spelling
\* that arrived after that request had ended answered "taken".
C6_Witness ==
    \E p, q \in Procs :
      /\ op[p] = "register" /\ cres[p] = "ok" /\ pc[p] = "done"
      /\ op[q] = "check_avail" /\ p < q /\ p \notin live[q]
      /\ arg[q].u # arg[p].u /\ arg[q].d = arg[p].d
      /\ cres[q] = "taken"

\* --- C7
\* check_nip05_available answers "available" exactly when the username is
\* absent, case-insensitively, from the registry file it reads and the ledger
\* it queries holds no payment-completed record of username@domain; a record
\* still pending does not make the answer "taken".
C7_NoPaidRecord(db, u, d) == \A r \in db.rows : r.nip05 = Nip(u, d) => ~r.paid
C7_AvailableIff ==
    [][ \A q \in Procs :
          /\ (op[q] = "check_avail" /\ pc[q] = "ca_read" /\ pc'[q] # "ca_read")
             => ( cres'[q] = "taken"
                  <=> {k \in NamesOf(arg[q].d) : SameName(k, arg[q].u)} # {} )
          /\ (op[q] = "check_avail" /\ pc[q] = "ca_query" /\ pc'[q] = "done")
             => ( cres'[q] = "avail"
                  <=> C7_NoPaidRecord(dbw, arg[q].u, arg[q].d) ) ]_vars

\* --- C8
\* When the recheck of check_and_add_nip05_entry or of
\* check_and_add_nip05_entry_atomic finds a case-insensitively equal username
\* in the registry, the call returns False (no exception) and that step changes
\* neither the registry file, the backup, the temp files nor the ledger, staged
\* or committed.
C8_AtRecheck(p) ==
    /\ pc[p] \in {"reg_cs", "cp_pay"}
    /\ pc'[p] # pc[p]
    /\ resp'[p] # "unpaid"
C8_DenialMutatesNothing ==
    [][ \A p \in Procs :
          ( /\ C8_AtRecheck(p)
            /\ {k \in NamesOf(arg[p].d) : SameName(k, arg[p].u)} # {} )
          => /\ cres'[p] = "denied"
             /\ UNCHANGED <<file, bak, tmpf, dbw, dbc>> ]_vars

\* A payment confirmation was denied because the name had been registered
\* meanwhile; the ledger row of its payment hash is still pending.
C8_Witness ==
    \E p \in Procs :
      /\ op[p] = "check_payment" /\ cres[p] = "denied"
      /\ FileHasName(p)
      /\ ByHash(dbw, arg[p].h) # {}
      /\ ~Paid(dbw, arg[p].h) /\ ~Paid(dbc, arg[p].h)

\* --- C9
\* The process-wide lock serializes the critical sections: no two tasks are
\* between load and the end of the write at once, and no task runs its
\* load/check/write while another task is inside its own, whatever the
\* domains of the two.
InCS(p) == pc[p] \in {"at_upd", "at_save", "at_rollback", "at_commit"}
C9_Serialized ==
    [][ /\ \A p, q \in Procs : (InCS(p) /\ InCS(q))' => p = q
        /\ \A p \in Procs :
             C8_AtRecheck(p) => \A q \in Procs : InCS(q) => q = p ]_vars

\* A payment confirmation is inside its critical section on one domain while
\* a Register call for another domain waits for the lock.
C9_Witness ==
    \E p, q \in Procs :
      /\ InCS(p) /\ lock = p
      /\ op[q] = "register" /\ pc[q] = "reg_cs"
      /\ arg[q].d # arg[p].d

\* --- C10
\* Every step of a Register-family operation, the ledger write that records
\* in_nostr_json and its commit included, runs while the task holds the lock.
C10_LockHeldThroughout ==
    \A p \in Procs :
      (InCS(p) \/ pc[p] \in {"reg_upd", "reg_commit"}) => lock = p

\* --- C11
\* A check_nip05_available call never overlaps a critical section: each of its
\* reads, the registry file read and the ledger query, is a step taken while
\* no other task is inside a critical section of
\* check_and_add_nip05_entry_atomic (between its load and its commit).
C11_Reads(q) ==
    /\ op[q] = "check_avail"
    /\ pc[q] \in {"ca_read", "ca_query"}
    /\ pc'[q] # pc[q]
C11_NoOverlap ==
    [][ \A q \in Procs :
          C11_Reads(q) => \A p \in Procs \ {q} : ~InCS(p) ]_vars

\* --- C12
\* The recheck inside the lock is made against both stores: when the durable
\* ledger holds a payment-completed record of username@domain (compared
\* case-insensitively) that another registration wrote, the recheck of
\* check_and_add_nip05_entry and of check_and_add_nip05_entry_atomic denies,
\* also when the username is absent from the registry file.
C12_PaidByOther(p) ==
    \E r \in dbc.rows :
      /\ r.nip05 = Nip(arg[p].u, arg[p].d)
      /\ r.paid
      /\ r.key # Key(p)
C12_RecheckUsesLedger ==
    [][ \A p \in Procs :
          (C8_AtRecheck(p) /\ C12_PaidByOther(p)) => cres'[p] = "denied" ]_vars

\* --- C13
\* In every state of every domain's registry file, whatever registrations,
\* legacy migration and recovery from backup came before, no two keys of names
\* are equal when compared case-insensitively.
C13_NoCaseDuplicates ==
    \A d \in Domains :
      \A k1, k2 \in NamesOf(d) : SameName(k1, k2) => k1 = k2

\* --- C14
\* When _atomic_write_json fails at a step before the rename (directory
\* creation, temp-file creation, serialization, flush and fsync), the error
\* reaches the caller of save_nostr_json and the target file holds exactly the
\* content it held before the call.
C14_BeforeRename == {"mkdir", "mktemp", "dump", "sync"}
C14_FailedBeforeRename ==
    /\ ret.fn = "save" /\ ret.how = "raised"
    /\ ret.at \in C14_BeforeRename
C14_TargetUntouched ==
    C14_FailedBeforeRename =>
      /\ Idle
      /\ file[PRIMARY_DOMAIN] = pre.file

\* A save over an existing registry failed while the temp file was written:
\* the backup copy was made, the target is as before.
C14_Witness ==
    /\ C14_FailedBeforeRename
    /\ ret.at = "dump"
    /\ pre.file = OkFile(Alice1)
    /\ file[PRIMARY_DOMAIN] = OkFile(Alice1)
    /\ bak[PRIMARY_DOMAIN] = OkFile(Alice1) /\ pre.bak # OkFile(Alice1)

\* --- C15
\* When _atomic_write_json fails at a step before the rename, serialization,
\* flush and fsync included, the temp file it created is deleted: when the
\* error reaches the caller no *.tmp.json of the failed call exists, and the
\* directory holds no more temp files than before the call.
C15_TempDeleted ==
    C14_FailedBeforeRename =>
      /\ ~ret.left
      /\ tmpf[PRIMARY_DOMAIN] = pre.tmpf

\* --- C16
\* At every point of a save, and after the process stopped anywhere inside
\* it (between the creation of the temp file and the rename included), the
\* primary registry file holds either its complete content from before the
\* save or the complete new document; whoever reads it then, a reader without
\* the lock or the restarted process, finds nothing else.
C16_New(doc) == FileOf(doc)
C16_OldOrNew ==
    /\ call.fn = "save" =>
         file[call.d] \in {pre.file, C16_New(call.doc)}
    /\ (ret.fn = "save" /\ ret.how = "crashed") =>
         file[PRIMARY_DOMAIN] \in {pre.file, C16_New(ret.doc)}

\* The process stopped after the temp file was written and before the rename:
\* the temp file is still there and the primary holds the old registry.
C16_Witness ==
    /\ ret.fn = "save" /\ ret.how = "crashed" /\ ret.at = "move"
    /\ ret.left
    /\ pre.file = OkFile(Alice1)
    /\ file[PRIMARY_DOMAIN] = OkFile(Alice1)
    /\ C16_New(ret.doc) # OkFile(Alice1)

\* --- C17
\* When save_nostr_json fails with a file-write failure (any step of
\* _atomic_write_json raises), the files of the domain are as before the call:
\* the primary and the backup both hold the content they held when
\* save_nostr_json was called, also when the primary was corrupt and the
\* backup valid.
C17_WriteFailed ==
    /\ ret.fn = "save" /\ ret.how = "raised"
    /\ ret.at \in C14_BeforeRename \cup {"move", "chmod"}
C17_FilesUnchanged ==
    C17_WriteFailed =>
      /\ file[PRIMARY_DOMAIN] = pre.file
      /\ bak[PRIMARY_DOMAIN] = pre.bak

\* --- C18
\* load_nostr_json never raises, and it returns the primary's contents when
\* the primary parses, an empty document when the primary is missing, the
\* backup's contents when the primary is malformed and the backup parses, and
\* an empty document when the primary is malformed and the backup is missing
\* or malformed.
C18_Parses(f) == f.kind \in {"ok", "nonames", "badnames", "notobj"}
C18_Malformed(f) == f.kind \in {"corrupt", "undecodable"}
C18_Expected(f, b) ==
    IF C18_Parses(f) THEN DocOf(f)
    ELSE IF C18_Malformed(f) /\ C18_Parses(b) THEN DocOf(b)
    ELSE EmptyDoc
C18_LoadTotal ==
    ret.fn = "load" =>
      /\ ret.how = "returned"
      /\ (pre.file.kind # "unreadable" /\ pre.bak.kind # "unreadable")
         => ret.doc = C18_Expected(pre.file, pre.bak)

\* --- C19
\* Every document load_nostr_json returns has a names field that is a
\* mapping: when the stored primary, or the backup it recovers from, is a JSON
\* object without a names key, the returned document has names = {}.
C19_NamesDefaulted ==
    (ret.fn = "load" /\ ret.how = "returned") =>
      /\ ret.doc.shape = "ok"
      /\ (pre.file.kind = "nonames" => ret.doc = EmptyDoc)

\* --- C20
\* save_nostr_json called with a document whose names field is missing or is
\* not a mapping raises its validation error before it touches the disk: the
\* document never reaches the copy or the writer, and the primary, the backup
\* and the temp files are as they were when it was called.
C20_Invalid(doc) == doc.shape # "ok"
C20_RejectedBeforeDisk ==
    /\ call.fn = "save" => ~C20_Invalid(call.doc)
    /\ (ret.fn = "save" /\ C20_Invalid(ret.doc)) =>
         /\ ret.how = "raised" /\ ret.at = "validate"
         /\ file[PRIMARY_DOMAIN] = pre.file
         /\ bak[PRIMARY_DOMAIN] = pre.bak
         /\ tmpf[PRIMARY_DOMAIN] = pre.tmpf

\* A document whose names is not a mapping was rejected while a registry and
\* no backup existed; both are as before.
C20_Witness ==
    /\ ret.fn = "save" /\ ret.how = "raised" /\ ret.at = "validate"
    /\ ret.doc.shape = "badnames"
    /\ pre.file = OkFile(Alice1) /\ file[PRIMARY_DOMAIN] = OkFile(Alice1)
    /\ pre.bak = Missing /\ bak[PRIMARY_DOMAIN] = Missing

\* The registry file of p's domain maps p's username to p's pubkey.
FileHasEntry(p) ==
    /\ FileHasName(p)
    /\ file[arg[p].d].names[arg[p].u] = Key(p)

\* --- C21
\* When the ledger is unavailable, check_and_add_nip05_entry and
\* check_and_add_nip05_entry_atomic fail before they mutate anything: at the
\* step where the ledger failure surfaces, the registry file does not hold the
\* entry of the failing call.
C21_LedgerFailsFirst ==
    [][ \A p \in Procs :
          (cres[p] # "exc_db" /\ cres'[p] = "exc_db") => ~FileHasEntry(p) ]_vars

\* --- C22
\* With no file or ledger call failing, a registration attempt through
\* /api/register or /api/check-payment ends in one of three ways: success,
\* with the name in the registry and a completed ledger record; denial; or
\* failure, with the registry not holding the attempt's entry.  In particular
\* /api/register for a username that has a pending ledger record does not end
\* in failure with the name in the registry.
C22_Ends(p) ==
    /\ op[p] \in {"register", "check_payment"}
    /\ pc[p] # "done" /\ pc'[p] = "done"
    /\ faults' = 0
C22_Completed(db, p) ==
    \E r \in db.rows : r.nip05 = Nip(arg[p].u, arg[p].d) /\ r.paid
C22_NeverHalf ==
    [][ \A p \in Procs :
          C22_Ends(p) =>
            /\ resp'[p] \in {"ok", "denied", "error", "bad", "unpaid"}
            /\ resp'[p] = "ok" => (FileHasEntry(p) /\ C22_Completed(dbc, p))'
            /\ resp'[p] = "error" => ~FileHasEntry(p)' ]_vars

\* --- C23
\* Every write to a domain's registry file is made by a task that holds the
\* lock: a step that changes a registry file belongs to a save_nostr_json call,
\* whose callers hold _nostr_json_lock.  The legacy migration is included.
C23_LockedWrites ==
    [][ file' # file => WriterHoldsLock ]_vars

\* --- C24
\* A second run of the legacy migration after a successful first run is a
\* no-op: a run that wrote every domain has renamed the legacy file away, and
\* a run that finds no legacy file leaves every registry file, backup and
\* directory as it found them.
C24_MigrateStep == Idle /\ ret'.fn = "migrate" /\ call' = NoCall
C24_Renamed ==
    (ret.fn = "migrate" /\ ret.at = "end") => legacy.kind = "missing"
C24_SecondRunNoOp ==
    /\ []C24_Renamed
    /\ [][ (C24_MigrateStep /\ legacy.kind = "missing") =>
             (ret'.at = "nolegacy" /\ UNCHANGED <<file, bak, tmpf, legacy>>) ]_vars
\* A run found no legacy file after an earlier run had written d2's registry.
C24_Witness ==
    /\ ret.fn = "migrate" /\ ret.at = "nolegacy"
    /\ file["d2"].kind = "ok"

\* --- C25
\* For each domain of the legacy file, a migration that completes writes the
\* union of the existing and the legacy names: a key of the legacy mapping has
\* the legacy value, and an existing key that is not in the legacy mapping
\* keeps its value.
C25_Existing(d) == IF file[d].kind = "ok" THEN file[d].names ELSE NoNames
C25_MergeRule ==
    [][ (C24_MigrateStep /\ ret'.at = "end") =>
          \A d \in Domains :
            legacy.names[d] # NoNames =>
              /\ file'[d].kind = "ok"
              /\ DOMAIN file'[d].names =
                   (DOMAIN C25_Existing(d)) \cup (DOMAIN legacy.names[d])
              /\ \A x \in DOMAIN legacy.names[d] :
                   file'[d].names[x] = legacy.names[d][x]
              /\ \A x \in (DOMAIN C25_Existing(d)) \ (DOMAIN legacy.names[d]) :
                   file'[d].names[x] = file[d].names[x] ]_vars
\* The migration met a key conflict (alice) and an existing entry (bob).
C25_Witness ==
    /\ ret.fn = "migrate" /\ ret.at = "end"
    /\ file["d1"].kind = "ok"
    /\ DOMAIN file["d1"].names = {"alice", "bob"}
    /\ file["d1"].names["alice"] = K3
    /\ file["d1"].names["bob"] = K2

\* --- C26
\* After startup has completed, no per-domain registry directory contains a
\* temp file left by an interrupted write.
C26_NoTempAfterStartup ==
    (ret.fn = "startup" /\ ret.how = "returned") =>
        \A d \in Domains : ~tmpf[d]

\* --- C27
\* In every reachable ledger state no two records have the same identifier
\* (compared case-insensitively) and no two records share a payment hash,
\* whatever hashes the provider returns to create-invoice.
C27_Unique(db) ==
    \A r1, r2 \in db.rows :
        r1.id # r2.id =>
            /\ r1.nip05 # r2.nip05
            /\ (r1.hash # NoHash /\ r2.hash # NoHash) => r1.hash # r2.hash
C27_LedgerUnique == C27_Unique(dbc)

\* --- C28
\* cancel-registration and the expired-invoice path of create-invoice delete
\* a ledger record only while it is pending: the record removed by
\* db_delete_record_by_id is not a completed (durably paid) registration.
C28_Deletes(p) ==
    \/ pc[p] = "cn_del" /\ pc'[p] = "cn_commit"
    \/ pc[p] = "ci_del" /\ pc'[p] = "ci_delcommit"
C28_DeletesPendingOnly ==
    [][ \A p \in Procs :
          C28_Deletes(p) =>
            \A r \in dbc.rows : r.id = rid[p] => ~r.paid ]_vars

\* --- C29
\* The UPDATE staged by check_and_add_nip05_entry_atomic becomes durable only
\* through that call's own commit: while the call has staged the UPDATE and
\* not yet written the file, no step makes payment_completed durable for its
\* payment hash.
C29_StagedUnwritten(p) ==
    /\ op[p] = "check_payment"
    /\ pc[p] = "at_save"
C29_Durable(db, h) == \E r \in db.rows : r.hash = h /\ r.paid
C29_OwnCommitOnly ==
    [][ \A p \in Procs :
          (C29_StagedUnwritten(p) /\ ~C29_Durable(dbc, arg[p].h))
             => ~C29_Durable(dbc', arg[p].h) ]_vars

\* --- C30
\* The rollback of check_and_add_nip05_entry_atomic discards only its own
\* UPDATE: the ledger changes other operations have made on the shared
\* connection (a pending-record insert, a cancel delete) are still there after
\* the rollback, so that they are durable once those operations report success.
C30_Others(db, h) == {r \in db.rows : r.hash # h}
C30_RollbackOwnOnly ==
    [][ \A p \in Procs :
          (pc[p] = "at_rollback" /\ pc'[p] # "at_rollback") =>
             C30_Others(dbw', arg[p].h) = C30_Others(dbw, arg[p].h) ]_vars

\* --- C31
\* Every critical section, once entered, releases the lock on every exit, and
\* a caller waiting for the lock is eventually granted it: no task holds the
\* lock forever and no task waits at the lock forever.
C31_Waiting(p) == pc[p] \in {"reg_cs", "ca_read"}
C31_NoDeadlock ==
    \A p \in Procs :
        /\ (lock = p) ~> (lock # p)
        /\ C31_Waiting(p) ~> ~C31_Waiting(p)
\* A task waits for the lock while another task is inside its critical section.
C31_Witness ==
    \E p, q \in Procs :
        /\ lock = q
        /\ pc[q] \in {"at_save", "at_rollback", "at_commit"}
        /\ C31_Waiting(p)

\* --- C32
\* check-payment goes on to the provider and to
\* check_and_add_nip05_entry_atomic only when a ledger record stored under
\* the given payment hash carries the claimed username@domain: a hash issued
\* for one identifier does not get a different username or domain past the
\* check.
C32_Passes(p) ==
    /\ op[p] = "check_payment"
    /\ pc[p] = "cp_lookup"
    /\ pc'[p] \notin {"cp_lookup", "done"}
C32_BoundIdentityOnly ==
    [][ \A p \in Procs :
          C32_Passes(p) =>
            \E r \in dbw.rows :
                /\ r.hash = arg[p].h
                /\ r.nip05[1] = arg[p].u
                /\ r.nip05[2] = arg[p].d ]_vars
\* A request presenting a hash that is stored for another identifier only was
\* turned away.
C32_Witness ==
    \E p \in Procs :
        /\ op[p] = "check_payment"
        /\ resp[p] = "bad"
        /\ \E r \in dbw.rows : r.hash = arg[p].h
        /\ \A r \in dbw.rows : r.hash = arg[p].h =>
               r.nip05 # Nip(arg[p].u, arg[p].d)

\* --- C33
\* A paid registration is confirmed, whatever the spelling of the username:
\* create-invoice stored a pending record for username@domain and returned
\* its hash, the provider reports the invoice paid, nothing fails and the
\* name is not in the registry; then check-payment called with the same
\* username, domain and hash returns paid=true.
C33_Invoiced(p) ==
    \E q \in Procs :
        /\ op[q] = "create_invoice"
        /\ q < p /\ q \notin live[p]
        /\ pc[q] = "done" /\ resp[q] = "created"
        /\ arg[q] = arg[p]
        /\ \E r \in dbc.rows : r.nip05 = Nip(arg[q].u, arg[q].d) /\ r.hash = arg[q].h
C33_PaidIsConfirmed ==
    \A p \in Procs :
        ( /\ op[p] = "check_payment"
          /\ pc[p] = "done"
          /\ C33_Invoiced(p)
          /\ resp[p] # "unpaid"
          /\ faults = 0 )
        => resp[p] = "ok"

\* --- C34
\* check-payment is idempotent after success: once a call has returned
\* paid=true, a later call with the same arguments, the provider still
\* reporting the invoice paid and nothing failing, returns paid=true as well.
C34_Succeeded(p) ==
    \E q \in Procs :
        /\ op[q] = "check_payment"
        /\ q < p /\ q \notin live[p]
        /\ arg[q] = arg[p]
        /\ resp[q] = "ok"
C34_Idempotent ==
    \A p \in Procs :
        ( /\ op[p] = "check_payment"
          /\ pc[p] = "done"
          /\ C34_Succeeded(p)
          /\ resp[p] # "unpaid"
          /\ faults = 0 )
        => resp[p] = "ok"

\* --- C35
\* create-invoice issues no new payable invoice for a username that is
\* already registered: when a payment confirmation for username@domain had
\* succeeded before the request arrived (name in the registry, record
\* completed), create-invoice does not answer "created".
C35_Registered(p) ==
    /\ \E q \in Procs :
          /\ op[q] = "check_payment"
          /\ q < p /\ q \notin live[p]
          /\ Nip(arg[q].u, arg[q].d) = Nip(arg[p].u, arg[p].d)
          /\ resp[q] = "ok"
    /\ CiKeys(file[arg[p].d].names, arg[p].u) # {}
    /\ C22_Completed(dbc, p)
C35_NoInvoiceForTaken ==
    \A p \in Procs :
        (op[p] = "create_invoice" /\ pc[p] = "done" /\ C35_Registered(p))
            => resp[p] # "created"

\* --- C36
\* A successful check_and_add_nip05_entry only adds: the names it persists
\* are the names registered before the call plus the one new entry, whatever
\* the state of the primary and backup files; no name that was in the
\* registry disappears.
C36_Added == Idle /\ ret'.fn = "register" /\ ret'.at = "added"
C36_Before(d) ==
    CASE file[d].kind = "ok" -> file[d].names
      [] file[d].kind = "corrupt" /\ bak[d].kind = "ok" -> bak[d].names
      [] OTHER -> NoNames
C36_OnlyAdds ==
    [][ C36_Added =>
          LET d == PRIMARY_DOMAIN
          IN  /\ file'[d].kind = "ok"
              /\ \E u \in RegNames : file'[d].names = Put(C36_Before(d), u, K2) ]_vars

\* A /api/register call for p's identifier had succeeded before p's request
\* arrived: the name is in the registry and a completed record is in the
\* ledger, both with the pubkey of that call.
RegisteredBefore(p) ==
    \E q \in Procs :
        /\ op[q] = "register"
        /\ q < p /\ q \notin live[p]
        /\ Nip(arg[q].u, arg[q].d) = Nip(arg[p].u, arg[p].d)
        /\ resp[q] = "ok"

\* --- C37
\* manage_update_record changes the pubkey of a registered name in both
\* stores or in neither: when the request has ended, whatever its outcome,
\* the pubkey of the ledger record equals the pubkey the registry file maps
\* the username to.
C37_BothOrNeither ==
    \A p \in Procs :
        (op[p] = "update_record" /\ pc[p] = "done" /\ RegisteredBefore(p)) =>
            \A r \in dbc.rows :
                r.nip05 = Nip(arg[p].u, arg[p].d) =>
                    \A k \in CiKeys(file[arg[p].d].names, arg[p].u) :
                        file[arg[p].d].names[k] = r.key

\* --- C38
\* manage_delete_record called for an existing completed record removes the
\* username from the registry file of its domain and deletes the ledger row,
\* so that the name is available again.
C38_Removed ==
    \A p \in Procs :
        (op[p] = "delete_record" /\ pc[p] = "done" /\ RegisteredBefore(p)) =>
            /\ CiKeys(file[arg[p].d].names, arg[p].u) = {}
            /\ ByNip(dbc, arg[p].u, arg[p].d) = {}

\* --- C39
\* A password reset token changes a password at most once: of the
\* confirm_password_reset calls that present the same token, at most one
\* updates the user's password.
C39_SameToken == {p \in Procs : op[p] = "reset_confirm" /\ arg[p].h = IssuedToken}
C39_AtMostOnce == Cardinality(pwdBy \cap C39_SameToken) <= 1

\* The steps of task p once its request has arrived.
Run(p) ==
        \/ RegisterDenied(p)
        \/ RegisterAdd(p)
        \/ RegDbUpdate(p)
        \/ RegDbCommit(p)
        \/ RegDbFail(p)
        \/ InsExec(p)
        \/ InsCommit(p)
        \/ AdmInsert(p)
        \/ AdmCommit(p)
        \/ DelSelect(p)
        \/ DelExec(p)
        \/ DelCommit(p)
        \/ CpLookup(p)
        \/ CpUnpaid(p)
        \/ AtomicDenied(p)
        \/ AtomicEnter(p)
        \/ AtomicUpdate(p)
        \/ AtomicSave(p)
        \/ AtomicRollback(p)
        \/ AtomicCommit(p)
        \/ AtomicDbFail(p)
        \/ CnGet(p)
        \/ CnDelete(p)
        \/ CnCommit(p)
        \/ CaRead(p)
        \/ CaQuery(p)

Next ==
    \E p \in Procs :
        \/ Start(p)
        \/ Run(p)

Spec == Init /\ [][Next]_vars

\* The event loop resumes every task that can run: a task whose awaited call
\* has answered, or that waits for a lock that stays free, takes its step.
SpecLive == Spec /\ \A p \in Procs : WF_vars(Run(p))
=============================================================================
